---- MODULE Spec2Model ----
(***************************************************************************)
(* Model of src/hybrid_search.py: the filter builder create_filter (cached *)
(* by st.cache_resource), the executor search_couchbase, and the script    *)
(* body that calls both.                                                   *)
(*                                                                         *)
(* Two specifications:                                                     *)
(*   SpecFilter  sessions calling the cached create_filter concurrently;   *)
(*   Spec        invocations of search_couchbase, one after another, from  *)
(*               the script body or from a direct caller.                  *)
(* search_couchbase touches only its parameters and locals, so the only    *)
(* state two concurrent searches share is the create_filter cache, which   *)
(* SpecFilter covers.                                                      *)
(*                                                                         *)
(* Optional Python values are sequences: <<>> is None (or the empty        *)
(* tuple), <<v>> is the value v, <<lo, hi>> is the tuple (lo, hi).         *)
(* Ratings and scores are whole numbers (the rating widget steps by 1.0).  *)
(***************************************************************************)
EXTENDS Integers, Sequences, FiniteSets, TLC

VARIABLES
    \* ---- create_filter and its cache (SpecFilter)
    cache,            \* st.cache_resource store: sequence of [args, obj], obj an object id
    heap,             \* heap[id]: the dict object with identity id
    held,             \* held[s]: the object ids session s got from create_filter, latest last
    \* ---- one invocation of search_couchbase (Spec)
    pc,               \* "idle", "embed", "search", "rows", "returned", "raised"
    search_text,      \* parameter search_text
    k,                \* parameter k
    search_options,   \* parameter search_options (the caller's filter)
    search_embedding, \* local search_embedding: <<>> until generate_embeddings returned
    requests,         \* the calls made to db_scope.search in this invocation
    yielded,          \* the rows search_iter.rows() has yielded in this invocation
    docs_with_score,  \* local docs_with_score
    outcome,          \* [kind, value, error]: what the invocation gave its caller
    events            \* the invocation's collaborator calls and their results, in order

filterVars == <<cache, heap, held>>
searchVars == <<pc, search_text, k, search_options, search_embedding, requests,
                yielded, docs_with_score, outcome, events>>
vars == <<cache, heap, held, pc, search_text, k, search_options, search_embedding,
          requests, yielded, docs_with_score, outcome, events>>

----------------------------------------------------------------------------
(* Bounds and input sets *)

MaxHits == 2          \* rows one store response yields at most
MaxObjects == 2       \* filter objects the model lets create_filter allocate

DefaultK == 5         \* k: int = 5, and the widget's value=5

Sessions == {"s1", "s2"}

YearRanges == {<<>>, <<1990, 2020>>}
Ratings == {<<>>, <<0>>, <<7>>}
Titles == {"", "dune"}
Ks == {0, 1, DefaultK}

\* What the widgets of the script can deliver
WidgetYearRanges == {<<1990, 2020>>}
WidgetRatings == {<<0>>, <<7>>}
WidgetKs == {n \in Ks : n >= 1}
Translations == {"dune", "sand planet"}

HitValues ==
    { [fields |-> [Series_Title |-> "Dune"], score |-> 9],
      [fields |-> [Series_Title |-> "Alien"], score |-> 9],
      [fields |-> [Series_Title |-> "Dune"], score |-> 7] }

----------------------------------------------------------------------------
(* create_filter *)

year_field == "Released_Year"
rating_field == "IMDB_Rating"
title_field == "Series_Title"

\* Python truth value of an optional number: None and 0.0 are false
TruthyNumber(x) == x # <<>> /\ x[1] # 0

\* Python truth value of an optional tuple: None and () are false
TruthyTuple(x) == x # <<>>

year_query(year_range) ==
    [min |-> year_range[1], max |-> year_range[2],
     inclusive_min |-> TRUE, inclusive_max |-> TRUE, field |-> year_field]

rating_query(rating) ==
    [min |-> rating[1], inclusive_min |-> FALSE, field |-> rating_field]

title_query(title) ==
    [match_phrase |-> title, field |-> title_field]

create_filter(year_range, rating, search_in_title, title) ==
    LET ops1 == IF TruthyTuple(year_range) THEN <<year_query(year_range)>> ELSE <<>>
        ops2 == IF TruthyNumber(rating) THEN Append(ops1, rating_query(rating)) ELSE ops1
        ops3 == IF search_in_title THEN Append(ops2, title_query(title)) ELSE ops2
    IN  [query |-> [conjuncts |-> ops3]]

FilterArgs ==
    [year_range : YearRanges, rating : Ratings, search_in_title : BOOLEAN, title : Titles]

WidgetArgs ==
    {a \in FilterArgs : a.year_range \in WidgetYearRanges /\ a.rating \in WidgetRatings}

CacheHits(args) == {i \in 1..Len(cache) : cache[i].args = args}

\* @st.cache_resource: a call whose arguments were seen before gets the object
\* stored for them, the very same object; a new argument tuple runs the
\* function and stores the object it returns.
CachedCreateFilter(s, args) ==
    IF CacheHits(args) # {}
    THEN /\ held' = [held EXCEPT ![s] = Append(@, cache[CHOOSE i \in CacheHits(args) : TRUE].obj)]
         /\ UNCHANGED <<cache, heap>>
    ELSE /\ Len(heap) < MaxObjects
         /\ heap' = Append(heap,
                create_filter(args.year_range, args.rating, args.search_in_title, args.title))
         /\ cache' = Append(cache, [args |-> args, obj |-> Len(heap) + 1])
         /\ held' = [held EXCEPT ![s] = Append(@, Len(heap) + 1)]

\* The script body, line 171: create_filter(year_range, rating, search_in_title, text)
ScriptCreateFilter(s) ==
    /\ held[s] = <<>>
    /\ \E args \in WidgetArgs : CachedCreateFilter(s, args)
    /\ UNCHANGED searchVars

\* The arguments session s passed for the object it holds
ArgsOf(s) == cache[CHOOSE i \in 1..Len(cache) : cache[i].obj = held[s][1]].args

\* The script body, line 193, reached when text is not empty: the same call again
ScriptFetchFilters(s) ==
    /\ Len(held[s]) = 1
    /\ ArgsOf(s) \in WidgetArgs
    /\ ArgsOf(s).title # ""
    /\ CachedCreateFilter(s, ArgsOf(s))
    /\ UNCHANGED searchVars

\* Any other caller of create_filter
CallCreateFilter(s) ==
    /\ held[s] = <<>>
    /\ \E args \in FilterArgs \ WidgetArgs : CachedCreateFilter(s, args)
    /\ UNCHANGED searchVars

\* A script run (or caller) ends: its names for the filter go away, the cache stays
EndRun(s) ==
    /\ held[s] # <<>>
    /\ held' = [held EXCEPT ![s] = <<>>]
    /\ UNCHANGED <<cache, heap>>
    /\ UNCHANGED searchVars

----------------------------------------------------------------------------
(* search_couchbase *)

NoOutcome == [kind |-> "none", value |-> <<>>, error |-> ""]

\* search_options: Dict[str, Any] = {}, the empty dict
EmptyOptions == <<>>

SearchOptionValues ==
    {create_filter(a.year_range, a.rating, a.search_in_title, a.title) : a \in FilterArgs}

\* Entry into search_couchbase: parameters bound, nothing done yet
Enter(text, kk, options) ==
    /\ pc \in {"idle", "returned", "raised"}
    /\ pc' = "embed"
    /\ search_text' = text
    /\ k' = kk
    /\ search_options' = options
    /\ search_embedding' = <<>>
    /\ requests' = <<>>
    /\ yielded' = <<>>
    /\ docs_with_score' = <<>>
    /\ outcome' = NoOutcome
    /\ events' = <<>>
    /\ UNCHANGED filterVars

\* The script body, lines 177-203: text is not empty, it is translated, the
\* filter is fetched with the widget values and search_couchbase is called
\* with k = no_of_results.
ScriptSearch ==
    \E args \in WidgetArgs, no_of_results \in WidgetKs, translated \in Translations :
        /\ args.title # ""
        /\ Enter(translated, no_of_results,
                 create_filter(args.year_range, args.rating, args.search_in_title, args.title))

\* Any other caller of search_couchbase: any k, any filter or none
CallSearch ==
    \E text \in Translations, kk \in Ks, options \in SearchOptionValues \cup {EmptyOptions} :
        Enter(text, kk, options)

\* generate_embeddings returns result['embedding']
Embedding(text) == <<[content |-> text, task_type |-> "retrieval_query"]>>

\* Line 90, generate_embeddings returns
EmbedReturns ==
    /\ pc = "embed"
    /\ events' = events \o <<"embed", "embed_ok">>
    /\ search_embedding' = Embedding(search_text)
    /\ pc' = "search"
    /\ UNCHANGED <<search_text, k, search_options, requests, yielded, docs_with_score, outcome>>
    /\ UNCHANGED filterVars

\* Mutant: the failure of the embedding call is swallowed and the search goes on
EmbedRaises_Swallowed ==
    /\ pc = "embed"
    /\ events' = events \o <<"embed", "embed_fail">>
    /\ pc' = "search"
    /\ UNCHANGED <<search_text, k, search_options, search_embedding, requests, yielded,
                   docs_with_score, outcome>>
    /\ UNCHANGED filterVars

\* Line 90, genai.embed_content raises: nothing catches it
EmbedRaises ==
    /\ pc = "embed"
    /\ events' = events \o <<"embed", "embed_fail">>
    /\ pc' = "raised"
    /\ outcome' = [kind |-> "raised", value |-> <<>>, error |-> "EmbeddingFailure"]
    /\ UNCHANGED <<search_text, k, search_options, search_embedding, requests, yielded,
                   docs_with_score>>
    /\ UNCHANGED filterVars

\* Mutant: the store is asked for more rows than k
SearchCall_OverFetch(embedding_key, embedding, kk, fields, options) ==
    [vectorQuery |-> [field |-> embedding_key, vector |-> embedding, k |-> kk],
     limit |-> kk + kk, fields |-> fields, raw |-> options]

\* Lines 93-101 and 107-115: what db_scope.search is called with
SearchCall(embedding_key, embedding, kk, fields, options) ==
    [vectorQuery |-> [field |-> embedding_key, vector |-> embedding, k |-> kk],
     limit |-> kk, fields |-> fields, raw |-> options]

Submitted == SearchCall("Overview_embedding", search_embedding, k, <<"*">>, search_options)

\* Lines 93-101: VectorQuery is the SDK's constructor and search_couchbase
\* passes it k unchecked. Whether the SDK accepts k < 1 is not decided by this
\* source, so both outcomes are modelled: here the constructor rejects it, and
\* the exception, raised outside the try block, leaves search_couchbase.
RequestRejected ==
    /\ pc = "search"
    /\ k < 1
    /\ events' = Append(events, "request_rejected")
    /\ pc' = "raised"
    /\ outcome' = [kind |-> "raised", value |-> <<>>, error |-> "InvalidArgument"]
    /\ UNCHANGED <<search_text, k, search_options, search_embedding, requests, yielded,
                   docs_with_score>>
    /\ UNCHANGED filterVars

\* Line 107, db_scope.search returns the iterator
SearchReturns ==
    /\ pc = "search"
    /\ requests' = Append(requests, Submitted)
    /\ events' = events \o <<"search", "search_ok">>
    /\ pc' = "rows"
    /\ UNCHANGED <<search_text, k, search_options, search_embedding, yielded,
                   docs_with_score, outcome>>
    /\ UNCHANGED filterVars

\* Mutant: the handler returns what was read so far instead of raising
Reraise_ReturnPartial ==
    /\ pc' = "returned"
    /\ outcome' = [kind |-> "returned", value |-> docs_with_score, error |-> ""]

\* Lines 121-122, except Exception as e: raise e
Reraise ==
    /\ pc' = "raised"
    /\ outcome' = [kind |-> "raised", value |-> <<>>, error |-> "StoreQueryFailure"]

\* Mutant: a failed search is submitted again
SearchRaises_Retry ==
    /\ pc = "search"
    /\ requests' = Append(requests, Submitted)
    /\ events' = events \o <<"search", "search_fail">>
    /\ UNCHANGED <<pc, search_text, k, search_options, search_embedding, yielded,
                   docs_with_score, outcome>>
    /\ UNCHANGED filterVars

\* Line 107, db_scope.search raises
SearchRaises ==
    /\ pc = "search"
    /\ requests' = Append(requests, Submitted)
    /\ events' = events \o <<"search", "search_fail">>
    /\ Reraise
    /\ UNCHANGED <<search_text, k, search_options, search_embedding, yielded, docs_with_score>>
    /\ UNCHANGED filterVars

\* Mutant: a row whose score ties with the row before it is dropped
AppendRow_SkipTies(docs, row) ==
    IF docs # <<>> /\ docs[Len(docs)][2] = row.score
    THEN docs
    ELSE Append(docs, <<row.fields, row.score>>)

\* Lines 119-120: score = row.score; docs_with_score.append((row.fields, score))
AppendRow(docs, row) == Append(docs, <<row.fields, row.score>>)

\* Line 118, rows() yields the next row
ReadRow ==
    /\ pc = "rows"
    /\ Len(yielded) < MaxHits
    /\ \E row \in HitValues :
        /\ yielded' = Append(yielded, row)
        /\ docs_with_score' = AppendRow(docs_with_score, row)
    /\ events' = Append(events, "row")
    /\ UNCHANGED <<pc, search_text, k, search_options, search_embedding, requests, outcome>>
    /\ UNCHANGED filterVars

\* Line 118, rows() raises while being read
RowsRaise ==
    /\ pc = "rows"
    /\ events' = Append(events, "rows_fail")
    /\ Reraise
    /\ UNCHANGED <<search_text, k, search_options, search_embedding, requests, yielded,
                   docs_with_score>>
    /\ UNCHANGED filterVars

\* Line 118 exhausted, line 124: return docs_with_score
ReturnDocs ==
    /\ pc = "rows"
    /\ events' = Append(events, "rows_end")
    /\ pc' = "returned"
    /\ outcome' = [kind |-> "returned", value |-> docs_with_score, error |-> ""]
    /\ UNCHANGED <<search_text, k, search_options, search_embedding, requests, yielded,
                   docs_with_score>>
    /\ UNCHANGED filterVars

----------------------------------------------------------------------------
(* Specifications *)

Init ==
    /\ cache = <<>>
    /\ heap = <<>>
    /\ held = [s \in Sessions |-> <<>>]
    /\ pc = "idle"
    /\ search_text = ""
    /\ k = DefaultK
    /\ search_options = EmptyOptions
    /\ search_embedding = <<>>
    /\ requests = <<>>
    /\ yielded = <<>>
    /\ docs_with_score = <<>>
    /\ outcome = NoOutcome
    /\ events = <<>>

Next ==
    \/ ScriptSearch
    \/ CallSearch
    \/ EmbedReturns
    \/ EmbedRaises
    \/ RequestRejected
    \/ SearchReturns
    \/ SearchRaises
    \/ ReadRow
    \/ RowsRaise
    \/ ReturnDocs

Spec == Init /\ [][Next]_vars

NextFilter ==
    \E s \in Sessions :
        \/ ScriptCreateFilter(s)
        \/ ScriptFetchFilters(s)
        \/ CallCreateFilter(s)
        \/ EndRun(s)

SpecFilter == Init /\ [][NextFilter]_vars

----------------------------------------------------------------------------
(* Properties of search_couchbase, checked under Spec *)

Happened(e) == \E i \in 1..Len(events) : events[i] = e

Times(e) == Cardinality({i \in 1..Len(events) : events[i] = e})

\* C1: when the embedding step fails, the invocation ends with that error
\* raised to the caller, the store's search is never called, and nothing
\* (no sequence, empty or not) is returned.
C1_EmbeddingFailurePropagates ==
    Happened("embed_fail") =>
        /\ pc = "raised"
        /\ outcome = [kind |-> "raised", value |-> <<>>, error |-> "EmbeddingFailure"]
        /\ requests = <<>>
        /\ ~Happened("search")

C1_Witness ==
    /\ Happened("embed_fail")
    /\ pc = "raised"

\* C2: when the store fails, at submission or while rows are read, the
\* invocation ends with the error raised to the caller, after the embedding
\* call was made; it returns neither an empty nor a partial sequence.
C2_StoreFailurePropagates ==
    (Happened("search_fail") \/ Happened("rows_fail")) =>
        /\ pc = "raised"
        /\ outcome = [kind |-> "raised", value |-> <<>>, error |-> "StoreQueryFailure"]
        /\ Len(events) >= 2 /\ events[1] = "embed" /\ events[2] = "embed_ok"

C2_Witness ==
    /\ Happened("rows_fail")
    /\ docs_with_score # <<>>
    /\ pc = "raised"

\* C3: the returned sequence has one (fields, score) pair per row the store
\* yielded, in the store's order, ties and repeats included; a response
\* without rows gives an empty sequence, returned without error.
C3_HitsReturnedInOrder ==
    /\ pc = "returned" =>
        /\ outcome.kind = "returned"
        /\ outcome.error = ""
        /\ Len(outcome.value) = Len(yielded)
        /\ \A i \in 1..Len(yielded) :
              outcome.value[i] = <<yielded[i].fields, yielded[i].score>>
    /\ Happened("rows_end") => pc = "returned"

C3_Witness ==
    /\ pc = "returned"
    /\ Len(yielded) = 2
    /\ yielded[1] # yielded[2]
    /\ yielded[1].score = yielded[2].score
    /\ Len(outcome.value) = 2

\* C4: an invocation makes at most one embedding call and at most one store
\* search call, exactly one of each when it returns, the embedding call
\* completed before the store call starts; nothing is retried.
C4_OneCallEach ==
    /\ Times("embed") <= 1
    /\ Times("search") <= 1
    /\ Len(requests) = Times("search")
    /\ pc = "returned" => Times("embed") = 1 /\ Len(requests) = 1
    /\ Happened("search") =>
          /\ Len(events) >= 3
          /\ events[1] = "embed" /\ events[2] = "embed_ok" /\ events[3] = "search"

C4_Witness ==
    /\ pc = "returned"
    /\ Times("embed") = 1
    /\ Len(requests) = 1

\* C5: the request submitted to the store has vectorQuery.k = k and
\* resultLimit = k and carries the caller's filter unchanged; with k = 5 it
\* asks for no more than 5 results.
C5_RequestCarriesKAndFilter ==
    \A i \in 1..Len(requests) :
        /\ requests[i].vectorQuery.k = k
        /\ requests[i].limit = k
        /\ requests[i].raw = search_options
        /\ k = DefaultK => requests[i].limit <= DefaultK

C5_Witness ==
    /\ Len(requests) = 1
    /\ k = DefaultK
    /\ search_options # EmptyOptions
    /\ search_options.query.conjuncts # <<>>

----------------------------------------------------------------------------
(* Properties of create_filter, checked under SpecFilter *)

\* The inputs as the claims read them: a year range or a rating is given when
\* it is not None, a title phrase when the flag is set and the text not empty
YearGiven(args) == args.year_range # <<>>
RatingGiven(args) == args.rating # <<>>
TitleGiven(args) == args.search_in_title /\ args.title # ""

Conjuncts(i) == heap[cache[i].obj].query.conjuncts

ChildrenOn(i, field) == {j \in 1..Len(Conjuncts(i)) : Conjuncts(i)[j].field = field}

\* A Conjunction holds when all children hold: does a rating v pass the
\* rating children of filter i
RatingPasses(i, v) ==
    \A j \in ChildrenOn(i, rating_field) :
        IF Conjuncts(i)[j].inclusive_min THEN v >= Conjuncts(i)[j].min
                                         ELSE v > Conjuncts(i)[j].min

\* C6: the filter is one Conjunction whose children are exactly the
\* conditions of the inputs given, each once, in the order year, rating,
\* title; an input not given contributes no child.
C6_ChildrenOfGivenInputsInOrder ==
    \A i \in 1..Len(cache) :
        LET a == cache[i].args
            year == IF YearGiven(a) THEN <<year_field>> ELSE <<>>
            rating == IF RatingGiven(a) THEN <<rating_field>> ELSE <<>>
            title == IF TitleGiven(a) THEN <<title_field>> ELSE <<>>
        IN  [j \in 1..Len(Conjuncts(i)) |-> Conjuncts(i)[j].field] = year \o rating \o title

\* C7: whenever a minimum rating is given, 0 included, the filter has a
\* condition on the rating field with min equal to it and an exclusive lower
\* bound, so a document rated exactly the minimum does not pass.
C7_RatingThresholdExclusive ==
    \A i \in 1..Len(cache) :
        RatingGiven(cache[i].args) =>
            /\ \E j \in ChildrenOn(i, rating_field) :
                  /\ Conjuncts(i)[j].min = cache[i].args.rating[1]
                  /\ Conjuncts(i)[j].inclusive_min = FALSE
            /\ ~RatingPasses(i, cache[i].args.rating[1])

\* C8: the filter has a phrase condition on the title field exactly when a
\* title phrase is given (not empty) and the flag is set, and its phrase is
\* the given one.
C8_TitleConditionWhenPhraseGiven ==
    \A i \in 1..Len(cache) :
        /\ (ChildrenOn(i, title_field) # {}) <=> TitleGiven(cache[i].args)
        /\ \A j \in ChildrenOn(i, title_field) :
              Conjuncts(i)[j].match_phrase = cache[i].args.title

\* C9: no two sessions hold the same filter object.
C9_NoSharedFilterObject ==
    \A s1, s2 \in Sessions :
        s1 # s2 => \A i \in 1..Len(held[s1]), j \in 1..Len(held[s2]) : held[s1][i] # held[s2][j]

====
